---- MODULE Spec2Model ----
(***************************************************************************)
(* A model of the generic REST resource layer of flasker/kit:              *)
(*   - src/kit/ext/orm.py      Model.__declare_last__, get_primary_key,    *)
(*                             to_json (the recursive serializer)          *)
(*   - src/flasker/ext/api.py  APIManager (registry, endpoint generator),  *)
(*                             APIView.__call__ (dispatcher), IndexView,   *)
(*                             CollectionView, ModelView                   *)
(*                                                                         *)
(* api.py calls the model methods by the names they had in flasker.util    *)
(* (jsonify, get_columns, get_relationships, get_primary_key_names,        *)
(* _json_attributes); that module is not among the sources, and the same   *)
(* methods are modelled from their kit.ext.orm successors (to_json,        *)
(* _get_columns, _get_relationships, get_primary_key, __json__).           *)
(*                                                                         *)
(* Values.  Python strings that the code takes apart (query-string values, *)
(* path segments) are sequences of tokens: a token is one character of     *)
(* punctuation, one digit, or one word.  "-name" is <<"-", "name">>,       *)
(* "1,2" is <<"1", ",", "2">>.  Column values are integers or TLA+         *)
(* strings.  None is the empty tuple; a nullable foreign key holds None or *)
(* <<id>>.                                                                 *)
(***************************************************************************)
EXTENDS Integers, Sequences, FiniteSets, TLC

VARIABLES
  store,     \* the store: model name -> sequence of rows, in primary-key order
  Models,    \* APIManager.Models: model name -> registration
  views,     \* APIView.__all__: the views created at startup, in creation order
  authorize, \* APIManager._authorize: None, or <<the set of methods the hook
             \* returns a truthful value for>>
  validate,  \* APIManager._validate: None, or <<the hook's return value>>
  config,    \* APIManager.config
  pc,        \* "idle" (no request in progress) or "done" (a response is out)
  request,   \* the request of the last call (flask.request), None when idle
  response,  \* what APIView.__call__ returned or raised for it, None when idle
  before,    \* the store as it was when the last call started
  registered \* APIManager.Models as it was when _before_register generated
             \* the views, None before that

vars ==
  <<store, Models, views, authorize, validate, config, pc, request, response,
    before, registered>>

\* Python's None.  Where the other values of a slot are names (TLA+ strings),
\* None is the name NoName.
None == <<>>
NoName == "None"

-----------------------------------------------------------------------------
(* Bounds of the model *)

\* Largest depth a request asks for (the smallest is -1).
MaxDepth == 3
\* Stand-in for the interpreter's recursion limit: to_json nested deeper than
\* this raises RuntimeError.
RecursionLimit == 6

-----------------------------------------------------------------------------
(* Sequence helpers *)

Range(s) == {s[i] : i \in DOMAIN s}

Min(a, b) == IF a <= b THEN a ELSE b
Max(a, b) == IF a >= b THEN a ELSE b

-----------------------------------------------------------------------------
(* The declared entity types: the docstring's House and Cat                *)
(* (src/kit/ext/orm.py lines 26-37), with an eager list relationship, an   *)
(* eager many-to-one back reference (so that the entity graph has cycles), *)
(* a private cache column (ORM(persistent_cache=True), lines 525-528) and  *)
(* a property that raises ValueError.                                      *)
(* Each class lists its members as dir(cls) does, sorted by name;          *)
(* "private" says that the name starts with an underscore.                 *)

ModelNames == {"House", "Cat"}

Column(n, priv, pk, type) ==
  [name |-> n, kind |-> "column", private |-> priv, primary_key |-> pk,
   type |-> type]
Relationship(n, priv, target, uselist, lazy) ==
  [name |-> n, kind |-> "relationship", private |-> priv, target |-> target,
   uselist |-> uselist, lazy |-> lazy]
Property(n, priv) == [name |-> n, kind |-> "property", private |-> priv]

Declared ==
  [House |-> << Column("address", FALSE, FALSE, "str"),
                Relationship("cats", FALSE, "Cat", TRUE, "dynamic"),
                Column("id", FALSE, TRUE, "int"),
                Relationship("pets", FALSE, "Cat", TRUE, "joined") >>,
   Cat   |-> << Column("__cache__", TRUE, FALSE, "str"),
                Relationship("house", FALSE, "House", FALSE, "joined"),
                Column("house_id", FALSE, FALSE, "fk"),
                Column("id", FALSE, TRUE, "int"),
                Column("name", FALSE, FALSE, "str"),
                Property("tag", FALSE) >>]

__tablename__ == [House |-> "houses", Cat |-> "cats"]

Member(M, varname) ==
  CHOOSE m \in Range(Declared[M]) : m.name = varname

\* [m.name for m in members]
NamesOf(members) == [i \in DOMAIN members |-> members[i].name]

EagerLazy == {"False", "joined", "immediate"}

\* A faulty variant of __declare_last__: the test on lazy is left out, so
\* that lazily loaded relationships are serialized too.
__json__with_lazy(M) ==
  LET Keep(m) == ~m.private IN NamesOf(SelectSeq(Declared[M], Keep))

\* Model.__declare_last__: the names that get serialized, computed from
\* the class once: public properties, public columns, and public
\* relationships whose lazy is False, 'joined' or 'immediate'.
__json__(M) ==
  LET Keep(m) ==
        /\ ~m.private
        /\ \/ m.kind = "property"
           \/ m.kind = "column"
           \/ m.kind = "relationship" /\ m.lazy \in EagerLazy
  IN NamesOf(SelectSeq(Declared[M], Keep))

\* Model._get_columns(show_private=False): the public column keys
\* (flasker's get_columns, whose elements carry .key)
_get_columns(M) ==
  LET Keep(m) == m.kind = "column" /\ ~m.private
  IN NamesOf(SelectSeq(Declared[M], Keep))

\* Model._get_relationships(show_private=False): key -> relationship
\* (flasker's get_relationships; a dictionary, here its keys in order)
_get_relationships(M) ==
  LET Keep(m) == m.kind = "relationship" /\ ~m.private
  IN NamesOf(SelectSeq(Declared[M], Keep))

\* class_mapper(cls).primary_key: the names of the primary key columns
get_primary_key_names(M) ==
  LET Keep(m) == m.kind = "column" /\ m.primary_key
  IN NamesOf(SelectSeq(Declared[M], Keep))

-----------------------------------------------------------------------------
(* The store (external collaborator): tables of rows in primary-key order  *)

Lookup(st, M, id) ==
  \* Query.get: the row with this primary key, or None
  IF \E i \in DOMAIN st[M] : st[M][i].id = id
  THEN st[M][CHOOSE i \in DOMAIN st[M] : st[M][i].id = id]
  ELSE None

\* the rows a relationship of a row leads to
Related(st, M, row, rel) ==
  IF M = "House"
  THEN LET Keep(c) == c.house_id = <<row.id>> IN SelectSeq(st["Cat"], Keep)
  ELSE IF row.house_id = None THEN <<>>
       ELSE LET Keep(h) == <<h.id>> = row.house_id
            IN SelectSeq(st["House"], Keep)

\* getattr(self, varname) on a loaded model: a scalar, a related model or
\* None, an InstrumentedList, a dynamic relationship's query, or a raised
\* ValueError (Cat.tag, for a cat without a house).
getattr(st, M, row, varname) ==
  LET m == Member(M, varname) IN
  CASE m.kind = "column" -> [kind |-> "scalar", value |-> row[varname]]
    [] m.kind = "property" ->
         IF row.house_id = None
         THEN [kind |-> "raise", exc |-> "ValueError", message |-> "stray"]
         ELSE [kind |-> "scalar", value |-> "housed"]
    [] m.kind = "relationship" /\ ~m.uselist ->
         LET rows == Related(st, M, row, m) IN
         IF rows = <<>> THEN [kind |-> "none"]
         ELSE [kind |-> "model", Model |-> m.target, row |-> rows[1]]
    [] m.kind = "relationship" /\ m.uselist /\ m.lazy = "dynamic" ->
         [kind |-> "query", Model |-> m.target,
          rows |-> Related(st, M, row, m)]
    [] OTHER ->
         [kind |-> "list", Model |-> m.target,
          rows |-> Related(st, M, row, m)]

-----------------------------------------------------------------------------
(* The recursive serializer *)

\* Model.get_primary_key(): {primary key column name: value}
get_primary_key(M, row) ==
  [k \in Range(get_primary_key_names(M)) |-> row[k]]

RuntimeError == [RuntimeError |-> "maximum recursion depth exceeded"]

RECURSIVE to_json_at(_, _, _, _, _)
RECURSIVE util_to_json(_, _, _, _)
RECURSIVE to_json_fields(_, _, _, _, _, _, _)

\* kit.util.to_json(value, depth), which is not among the sources: a scalar
\* passes through, a related model is serialized at the depth given, a list
\* member by member, None stays None.
util_to_json(st, got, depth, nesting) ==
  CASE got.kind = "scalar" -> got.value
    [] got.kind = "none" -> None
    [] got.kind = "model" -> to_json_at(st, got.Model, got.row, depth, nesting)
    [] OTHER ->
         [i \in DOMAIN got.rows |->
            to_json_at(st, got.Model, got.rows[i], depth, nesting)]

\* A faulty variant of the loop: without the except clause, the ValueError
\* of one name ends the serialization with what it has so far.
to_json_fields_no_except(st, M, row, depth, nesting, i, instance_json) ==
  IF i > Len(__json__(M)) THEN instance_json
  ELSE LET varname == __json__(M)[i]
           got == getattr(st, M, row, varname)
       IN IF got.kind = "raise" THEN instance_json
          ELSE to_json_fields(st, M, row, depth, nesting, i + 1,
                 instance_json
                   @@ (varname :> util_to_json(st, got, depth - 1, nesting + 1)))

\* A faulty variant of the loop: the members are serialized at depth, not
\* at depth - 1.
to_json_fields_same_depth(st, M, row, depth, nesting, i, instance_json) ==
  IF i > Len(__json__(M)) THEN instance_json
  ELSE LET varname == __json__(M)[i]
           got == getattr(st, M, row, varname)
           value == IF got.kind = "raise" THEN got.message
                    ELSE util_to_json(st, got, depth, nesting + 1)
       IN to_json_fields(st, M, row, depth, nesting, i + 1,
                         instance_json @@ (varname :> value))

\* the loop of Model.to_json over self.__json__, from the i-th name on:
\*   try:    instance_json[varname] = to_json(getattr(self, varname), depth - 1)
\*   except ValueError as err: instance_json[varname] = err.message
to_json_fields(st, M, row, depth, nesting, i, instance_json) ==
  IF i > Len(__json__(M)) THEN instance_json
  ELSE LET varname == __json__(M)[i]
           got == getattr(st, M, row, varname)
           value == IF got.kind = "raise" THEN got.message
                    ELSE util_to_json(st, got, depth - 1, nesting + 1)
       IN to_json_fields(st, M, row, depth, nesting, i + 1,
                         instance_json @@ (varname :> value))

\* A faulty variant of Model.to_json: the base case tests depth < 0.
to_json_at_negative_only(st, M, row, depth, nesting) ==
  IF nesting > RecursionLimit THEN RuntimeError
  ELSE IF depth < 0 THEN get_primary_key(M, row)
  ELSE to_json_fields(st, M, row, depth, nesting, 1, <<>>)

\* Model.to_json(self, depth), called at the given nesting of to_json calls
to_json_at(st, M, row, depth, nesting) ==
  IF nesting > RecursionLimit THEN RuntimeError
  ELSE IF depth <= 0 THEN get_primary_key(M, row)
  ELSE to_json_fields(st, M, row, depth, nesting, 1, <<>>)

to_json(st, M, row, depth) == to_json_at(st, M, row, depth, 0)

-----------------------------------------------------------------------------
(* Python strings as token sequences *)

DigitValue ==
  [d \in {"0", "1", "2", "3", "4", "5", "6", "7", "8", "9"} |->
     CASE d = "0" -> 0 [] d = "1" -> 1 [] d = "2" -> 2 [] d = "3" -> 3
       [] d = "4" -> 4 [] d = "5" -> 5 [] d = "6" -> 6 [] d = "7" -> 7
       [] d = "8" -> 8 [] OTHER -> 9]

IsDigits(s) == s # <<>> /\ \A i \in DOMAIN s : s[i] \in DOMAIN DigitValue

RECURSIVE DigitsValue(_)
DigitsValue(s) ==
  IF s = <<>> THEN 0
  ELSE 10 * DigitsValue(SubSeq(s, 1, Len(s) - 1)) + DigitValue[s[Len(s)]]

\* whether int(s) returns (otherwise it raises ValueError)
IsInt(s) ==
  \/ IsDigits(s)
  \/ s # <<>> /\ s[1] \in {"-", "+"} /\ IsDigits(Tail(s))

\* int(s)
int(s) ==
  IF s[1] = "-" THEN 0 - DigitsValue(Tail(s))
  ELSE IF s[1] = "+" THEN DigitsValue(Tail(s))
  ELSE DigitsValue(s)

RECURSIVE split(_, _)
\* s.split(sep)
split(s, sep) ==
  IF \E i \in DOMAIN s : s[i] = sep
  THEN LET i == CHOOSE j \in DOMAIN s :
                  s[j] = sep /\ \A k \in 1..(j - 1) : s[k] # sep
       IN <<SubSeq(s, 1, i - 1)>> \o split(SubSeq(s, i + 1, Len(s)), sep)
  ELSE <<s>>

RECURSIVE strip(_, _)
\* s.strip(ch)
strip(s, ch) ==
  IF s # <<>> /\ s[1] = ch THEN strip(Tail(s), ch)
  ELSE IF s # <<>> /\ s[Len(s)] = ch THEN strip(SubSeq(s, 1, Len(s) - 1), ch)
  ELSE s

-----------------------------------------------------------------------------
(* APIManager: the registry and the endpoint generator *)

Methods == {"GET", "POST", "PUT", "DELETE"}

\* APIManager.config, the class defaults
config_defaults ==
  [URL_PREFIX |-> "/api",
   DEFAULT_COLLECTION_DEPTH |-> 0,
   DEFAULT_MODEL_DEPTH |-> 1,
   DEFAULT_LIMIT |-> 20,
   MAX_LIMIT |-> None]

\* the order in which the dictionary Models yields its values
ModelOrder == <<"House", "Cat">>

\* the relationships argument of add_model: True, False or a list of keys
True == [flag |-> TRUE]
False == [flag |-> FALSE]
Keys(keys) == [keys |-> keys]

\* APIManager.add_model(Model, relationships, methods): the new Models
add_model(models, Model, relationships, methods) ==
  LET rels ==
        IF relationships = True THEN Range(_get_relationships(Model))
        ELSE IF relationships = False THEN {}
        ELSE relationships.keys
      entry == [Model |-> Model, methods |-> methods, relationships |-> rels]
  IN [M \in DOMAIN models \cup {Model} |->
        IF M = Model THEN entry ELSE models[M]]

\* APIView.__init__(**kwargs): a view
APIView(cls, Model, relationship, methods) ==
  [cls |-> cls, Model |-> Model, relationship |-> relationship,
   methods |-> methods]

\* ModelView.url and CollectionView.url, as path segments (a trailing ""
\* is the collection's trailing slash)
url(view) ==
  LET pk == [i \in DOMAIN get_primary_key_names(view.Model) |->
               "<" \o get_primary_key_names(view.Model)[i] \o ">"]
  IN CASE view.cls = "IndexView" -> <<"">>
       [] view.cls = "CollectionView" ->
            <<__tablename__[view.Model]>>
            \o (IF view.relationship # NoName
                THEN pk \o <<view.relationship>> ELSE <<>>)
            \o <<"">>
       [] OTHER ->
            <<__tablename__[view.Model]>> \o pk
            \o (IF view.relationship # NoName
                THEN <<view.relationship, "<position>">> ELSE <<>>)

RECURSIVE RelationshipViews(_, _, _, _)

\* A faulty variant of the loop: the test on rel.uselist is left out.
RelationshipViews_any_cardinality(Model, rels, relationships, rel_methods) ==
  IF rels = <<>> THEN <<>>
  ELSE LET rel == Member(Model, Head(rels)) IN
       (IF rel.name \in relationships
        THEN << APIView("ModelView", Model, rel.name, rel_methods),
                APIView("CollectionView", Model, rel.name, rel_methods) >>
        ELSE <<>>)
       \o RelationshipViews(Model, Tail(rels), relationships, rel_methods)

\* the loop of _create_model_views over Model.get_relationships().values()
RelationshipViews(Model, rels, relationships, rel_methods) ==
  IF rels = <<>> THEN <<>>
  ELSE LET rel == Member(Model, Head(rels)) IN
       (IF rel.name \in relationships /\ rel.uselist
        THEN << APIView("ModelView", Model, rel.name, rel_methods),
                APIView("CollectionView", Model, rel.name, rel_methods) >>
        ELSE <<>>)
       \o RelationshipViews(Model, Tail(rels), relationships, rel_methods)

\* A faulty variant of _create_model_views: the model view and the
\* collection view are given the registration's methods as they are.
_create_model_views_all_methods(Model, relationships, methods) ==
  LET rel_methods == {"GET"} \cap methods
  IN (IF methods \cap {"GET", "PUT", "DELETE"} # {}
      THEN <<APIView("ModelView", Model, NoName, methods)>> ELSE <<>>)
     \o (IF methods \cap {"GET", "POST"} # {}
         THEN <<APIView("CollectionView", Model, NoName, methods)>>
         ELSE <<>>)
     \o (IF rel_methods # {}
         THEN RelationshipViews(Model, _get_relationships(Model),
                                relationships, rel_methods)
         ELSE <<>>)

\* APIManager._create_model_views(Model, relationships, methods): the views
\* added to the blueprint
_create_model_views(Model, relationships, methods) ==
  LET model_methods == methods \cap {"GET", "PUT", "DELETE"}
      collection_methods == methods \cap {"GET", "POST"}
      rel_methods == {"GET"} \cap methods
  IN (IF model_methods # {}
      THEN <<APIView("ModelView", Model, NoName, model_methods)>> ELSE <<>>)
     \o (IF collection_methods # {}
         THEN <<APIView("CollectionView", Model, NoName, collection_methods)>>
         ELSE <<>>)
     \o (IF rel_methods # {}
         THEN RelationshipViews(Model, _get_relationships(Model),
                                relationships, rel_methods)
         ELSE <<>>)

RECURSIVE AllModelViews(_, _)
AllModelViews(models, order) ==
  IF order = <<>> THEN <<>>
  ELSE (IF Head(order) \in DOMAIN models
        THEN _create_model_views(models[Head(order)].Model,
                                 models[Head(order)].relationships,
                                 models[Head(order)].methods)
        ELSE <<>>)
       \o AllModelViews(models, Tail(order))

\* APIManager._before_register: every model's views, then the index view
_before_register(models) ==
  AllModelViews(models, ModelOrder)
  \o <<APIView("IndexView", NoName, NoName, {"GET"})>>

-----------------------------------------------------------------------------
(* Requests and results *)

\* A request is [view, method, kwargs, args, json]: the index of the matched
\* view in views, the HTTP method, the path-bound values (a record of token
\* strings), the query string (parameter name -> token string) and the body.

\* What a call gives: it returns (exc = "") a response with a status code
\* and a body, or it raises exc.  store is the store it leaves, log the
\* steps it took, in order.
Return(code, body, st, log) ==
  [exc |-> "", code |-> code, body |-> body, store |-> st, log |-> log]
Raise(exc, st, log) ==
  [exc |-> exc, code |-> 0, body |-> None, store |-> st, log |-> log]
\* raise APIError(code, content)
APIError(code, content, st, log) ==
  [exc |-> "APIError", code |-> code, body |-> content, store |-> st,
   log |-> log]

\* HTTPException.message for an APIError of this code
message(code) ==
  CASE code = 400 -> "400 Bad Request"
    [] code = 403 -> "403 Forbidden"
    [] code = 404 -> "404 Not Found"
    [] OTHER -> "405 Method Not Allowed"

\* the echo of the request in a response
Echo(self, req) ==
  [base_url |-> [url |-> url(self), kwargs |-> req.kwargs],
   method |-> req.method,
   values |-> req.args]

\* Query.get(kwargs.values()) for the primary key bound in the path
get(st, Model, kwargs) ==
  IF IsInt(kwargs.id) THEN Lookup(st, Model, int(kwargs.id)) ELSE None

-----------------------------------------------------------------------------
(* APIView *)

\* A faulty variant of is_authorized: without a hook nobody is authorized.
is_authorized_hook_required(self, req) ==
  IF authorize = None THEN FALSE ELSE req.method \in authorize[1]

\* APIView.is_authorized
is_authorized(self, req) ==
  IF authorize = None THEN TRUE
  ELSE req.method \in authorize[1]

\* APIView.is_validated(json): "" and the hook's answer, or the exception
\* it raises: with a hook registered it reads self._mananager, an attribute
\* that no view has.
is_validated(self, json) ==
  IF validate = None THEN [exc |-> "", value |-> TRUE]
  ELSE [exc |-> "AttributeError", value |-> FALSE]

\* APIView.authorized_methods; it calls self._manager._authorize
authorized_methods(self) == {m \in self.methods : m \in authorize[1]}

-----------------------------------------------------------------------------
(* IndexView *)

\* A faulty variant of available_relationships: it iterates the values of
\* get_relationships(), so that the test on the registration is reached.
available_relationships_of_values(self, models) ==
  LET Keep(k) ==
        /\ Member(self.Model, k).uselist
        /\ k \in models[self.Model].relationships
  IN [exc |-> "", value |-> SelectSeq(_get_relationships(self.Model), Keep)]

\* APIView.available_relationships, read with APIManager.Models = models:
\* it iterates the dictionary get_relationships(), that is its keys, and
\* reads r.uselist of a key before it reads the registration.
\* "" and the list, or the exception.
available_relationships(self, models) ==
  IF _get_relationships(self.Model) # <<>>
  THEN [exc |-> "AttributeError", value |-> <<>>]
  ELSE [exc |-> "", value |-> <<>>]

\* IndexView.get, read with APIManager.Models = models
IndexView_get_with(models, self, st, log) ==
  LET all == views
      model_views ==
        LET Keep(v) == v.Model # NoName /\ v.relationship = NoName
        IN SelectSeq(all, Keep)
  IN IF authorize = None /\ \E i \in DOMAIN all : all[i].methods # {}
     THEN \* v.authorized_methods calls None
          Raise("TypeError", st, log)
     ELSE IF \E i \in DOMAIN model_views :
                available_relationships(model_views[i], models).exc # ""
     THEN Raise("AttributeError", st, log)
     ELSE Return(200,
            [status |-> "200 Welcome",
             available_endpoints |->
               LET Keep(v) == authorized_methods(v) # {}
                   shown == SelectSeq(all, Keep)
               IN [i \in DOMAIN shown |->
                     [url |-> url(shown[i]),
                      methods |-> authorized_methods(shown[i])]],
             available_models |->
               [M \in {model_views[i].Model : i \in DOMAIN model_views} |->
                  [available_columns |-> __json__(M),
                   available_relationships |->
                     available_relationships(
                       APIView("ModelView", M, NoName, {}), models).value]]],
            st, log)

\* IndexView.get
IndexView_get(self, req, st, log) == IndexView_get_with(Models, self, st, log)

-----------------------------------------------------------------------------
(* The store's query object (external collaborator): filter, order_by,     *)
(* limit, offset                                                           *)

\* the order of the string values that columns hold
StringOrder == <<"a", "b", "c", "z">>
Rank(v) == CHOOSE i \in DOMAIN StringOrder : StringOrder[i] = v

\* getattr(Model, k) == v for a row, v being the raw query-string value:
\* the store compares it as the column's type
ColumnEquals(Model, k, row, v) ==
  LET type == Member(Model, k).type IN
  CASE type = "str" -> Len(v) = 1 /\ row[k] = v[1]
    [] type = "int" -> IsInt(v) /\ row[k] = int(v)
    [] OTHER -> IsInt(v) /\ row[k] = <<int(v)>>

\* the ORDER BY key of a row: NULL sorts first; the negation of a string
\* (order_by(-column) on a string column) is the number 0, whatever the
\* string, as MySQL and SQLite, the dialects kit.ext.orm names, compute it
OrderKey(Model, attr, row, negated) ==
  LET type == Member(Model, attr).type
      sign == IF negated THEN 0 - 1 ELSE 1
  IN CASE type = "str" ->
            [null |-> 1, k |-> IF negated THEN 0 ELSE Rank(row[attr])]
       [] type = "int" -> [null |-> 1, k |-> sign * row[attr]]
       [] OTHER ->
            IF row[attr] = None THEN [null |-> 0, k |-> 0]
            ELSE [null |-> 1, k |-> sign * row[attr][1]]

KeyLess(a, b) == a.null < b.null \/ (a.null = b.null /\ a.k < b.k)

RECURSIVE InsertByKey(_, _)
InsertByKey(sorted, p) ==
  IF sorted = <<>> THEN <<p>>
  ELSE IF KeyLess(p.key, Head(sorted).key) THEN <<p>> \o sorted
  ELSE <<Head(sorted)>> \o InsertByKey(Tail(sorted), p)

RECURSIVE SortByKey(_)
SortByKey(ps) ==
  IF ps = <<>> THEN <<>>
  ELSE InsertByKey(SortByKey(SubSeq(ps, 1, Len(ps) - 1)), ps[Len(ps)])

\* query.order_by(getattr(Model, attr)) or, negated, order_by(-getattr(...));
\* rows with equal keys keep their order
order_by(Model, rows, attr, negated) ==
  LET ps == [i \in DOMAIN rows |->
               [key |-> OrderKey(Model, attr, rows[i], negated),
                row |-> rows[i]]]
      sorted == SortByKey(ps)
  IN [i \in DOMAIN sorted |-> sorted[i].row]

\* the rows a query with LIMIT limit (None: no limit) and OFFSET offset yields
LimitOffset(rows, limit, offset) ==
  LET last == IF limit = None THEN Len(rows)
              ELSE Min(Len(rows), offset + limit[1])
  IN SubSeq(rows, offset + 1, last)

-----------------------------------------------------------------------------
(* CollectionView *)

CollectionView_params == {"depth", "limit", "offset", "loaded", "sort"}

\* request.args.get(key, default)
args_get(args, key, default) ==
  IF key \in DOMAIN args THEN args[key] ELSE default

\* CollectionView._process_list(lst, params)
_process_list(self, lst, req, st, log) ==
  [exc |-> "",
   processing_times |-> <<>>,
   total_matches |-> Len(lst.rows),
   content |->
     [i \in DOMAIN lst.rows |->
        to_json(st, lst.Model, lst.rows[i], config.DEFAULT_COLLECTION_DEPTH)]]

\* A faulty variant of the filters: the filtered query is dropped.
filter_by_nothing(Model, rows, filters, args) == rows

\* for k, v in filters.items(): query = query.filter(getattr(Model, k) == v)
filter_by(Model, rows, filters, args) ==
  LET Keep(row) == \A k \in filters : ColumnEquals(Model, k, row, args[k])
  IN SelectSeq(rows, Keep)

\* A faulty variant of the exclusion: the filtered query is dropped.
exclude_loaded_nothing(rows, loaded) == rows

\* if loaded: query = query.filter(~Model.id.in_(loaded))
exclude_loaded(rows, loaded) ==
  IF loaded # {}
  THEN LET Keep(row) == row.id \notin loaded IN SelectSeq(rows, Keep)
  ELSE rows

\* CollectionView._process_query(query, params)
_process_query(self, query, req, st, log) ==
  LET Model == query.Model
      column_names == Range(_get_columns(Model))
      args == req.args
      filters == DOMAIN args \cap column_names
      IntArgOk(key) == key \notin DOMAIN args \/ IsInt(args[key])
      IntArg(key, default) ==
        IF key \in DOMAIN args THEN int(args[key]) ELSE default
      entries ==
        LET NonEmpty(e) == e # <<>>
        IN SelectSeq(split(args_get(args, "loaded", <<>>), ","), NonEmpty)
      offset == Max(0, IntArg("offset", 0))
      limit0 == Max(0, IntArg("limit", config.DEFAULT_LIMIT))
      limit == IF config.MAX_LIMIT # None /\ config.MAX_LIMIT[1] # 0
               THEN Min(limit0, config.MAX_LIMIT[1]) ELSE limit0
      depth == Max(0, IntArg("depth", config.DEFAULT_COLLECTION_DEPTH))
      loaded == {int(entries[i]) : i \in DOMAIN entries}
      sort == args_get(args, "sort", <<>>)
      filtered == filter_by(Model, query.rows, filters, args)
      total_matches == 10 \* query.count()
      unloaded == exclude_loaded(filtered, loaded)
      attr == strip(sort, "-")
      ordered ==
        IF sort # <<>>
        THEN order_by(Model, unloaded, attr[1], sort[1] = "-")
        ELSE unloaded
      rows == LimitOffset(ordered, IF limit # 0 THEN <<limit>> ELSE None,
                          offset)
  IN IF \E k \in DOMAIN args :
          k \notin column_names /\ k \notin CollectionView_params
     THEN APIError(400, "Bad Request", st, log)
     ELSE IF \/ ~IntArgOk("offset") \/ ~IntArgOk("limit") \/ ~IntArgOk("depth")
             \/ \E i \in DOMAIN entries : ~IsInt(entries[i])
     THEN APIError(400, "Invalid parameters", st, log)
     ELSE IF sort # <<>> /\ ~(Len(attr) = 1 /\ attr[1] \in column_names)
     THEN APIError(400, "Invalid sort parameter", st, log)
     ELSE [exc |-> "",
           processing_times |-> <<"request", "query">>,
           total_matches |-> total_matches,
           content |->
             [i \in DOMAIN rows |-> to_json(st, Model, rows[i], depth)]]

\* CollectionView.get(params, **kwargs)
CollectionView_get(self, req, st, log) ==
  LET model == get(st, self.Model, req.kwargs)
      query ==
        IF req.kwargs = <<>>
        THEN [kind |-> "query", Model |-> self.Model, rows |-> st[self.Model]]
        ELSE getattr(st, self.Model, model, self.relationship)
      log1 == log \o (IF req.kwargs = <<>> THEN <<>> ELSE <<"query.get">>)
      log2 == log1 \o <<"query">>
      results ==
        IF query.kind = "list"
        THEN _process_list(self, query, req, st, log2)
        ELSE _process_query(self, query, req, st, log2)
  IN IF req.kwargs # <<>> /\ model = None
     THEN APIError(404, "No resource found for this ID", st, log1)
     ELSE IF results.exc # "" THEN results
     ELSE Return(200,
            [status |-> "200 Success",
             processing_time |-> results.processing_times,
             matches |-> [total |-> results.total_matches,
                          returned |-> Len(results.content)],
             request |-> Echo(self, req),
             content |-> results.content],
            st, log2)

\* CollectionView.post(params, **kwargs): with no validate hook it comes to
\* Model(**request.json), and this module binds no name Model (the base
\* class is imported as BaseModel)
CollectionView_post(self, req, st, log) ==
  LET validated == is_validated(self, req.json)
      log1 == log \o <<"is_validated">>
  IN IF validated.exc # "" THEN Raise(validated.exc, st, log1)
     ELSE IF validated.value THEN Raise("NameError", st, log1)
     ELSE APIError(400, "Failed validation", st, log1)

-----------------------------------------------------------------------------
(* ModelView *)

RECURSIVE to_json_str_depth(_, _, _, _)
\* Model.to_json(depth=s) for a string s, as put passes params['depth']: a
\* string is not <= 0; a name whose getattr raises ValueError gets the
\* message, and the first other name comes to depth - 1, a TypeError.
\* "" and the dictionary, or the exception.
to_json_str_depth(st, M, row, i) ==
  IF i > Len(__json__(M)) THEN [exc |-> "", names |-> __json__(M)]
  ELSE IF getattr(st, M, row, __json__(M)[i]).kind = "raise"
  THEN to_json_str_depth(st, M, row, i + 1)
  ELSE [exc |-> "TypeError", names |-> <<>>]

\* A faulty variant of the lookup by position: pos is taken as the
\* position, not as the index.
member_at_position(query_or_list, pos) ==
  IF 1 <= pos /\ pos <= Len(query_or_list.rows)
  THEN query_or_list.rows[pos] ELSE None

\* query_or_list[pos] (None on IndexError), or
\* query_or_list.offset(pos).first(), for pos >= 0
member_at(query_or_list, pos) ==
  IF pos + 1 <= Len(query_or_list.rows)
  THEN query_or_list.rows[pos + 1] ELSE None

\* ModelView.get(params, **kwargs)
ModelView_get(self, req, st, log) ==
  LET kwargs == req.kwargs
      has_position == "position" \in DOMAIN kwargs
      depth_ok == "depth" \notin DOMAIN req.args \/ IsInt(req.args.depth)
      depth == IF "depth" \in DOMAIN req.args THEN int(req.args.depth)
               ELSE config.DEFAULT_MODEL_DEPTH
      owner == get(st, self.Model, kwargs)
      log1 == log \o <<"query.get">>
      pos == int(kwargs.position) - 1
      query_or_list == getattr(st, self.Model, owner, self.relationship)
      member == member_at(query_or_list, pos)
      Model == IF has_position THEN query_or_list.Model ELSE self.Model
      model == IF has_position THEN member ELSE owner
  IN IF ~depth_ok THEN Raise("ValueError", st, log)
     ELSE IF has_position /\ ~IsInt(kwargs.position)
     THEN APIError(400, "Invalid position index", st, log1)
     ELSE IF has_position /\ pos < 0
     THEN APIError(400, "Invalid position index", st, log1)
     ELSE IF has_position /\ owner = None
     THEN \* getattr(None, self.relationship.key)
          Raise("AttributeError", st, log1)
     ELSE IF model = None
     THEN APIError(404, "No resource at this position", st,
                   log1 \o (IF has_position THEN <<"query">> ELSE <<>>))
     ELSE Return(200, to_json(st, Model, model, depth), st,
                 log1 \o (IF has_position THEN <<"query">> ELSE <<>>))

\* for k, v in request.json.items(): setattr(model, k, v), on the row of
\* the store; a key that is no column sets an attribute of the object only
setattrs(st, Model, id, json) ==
  LET columns == {Declared[Model][i].name : i \in
                    {j \in DOMAIN Declared[Model] :
                       Declared[Model][j].kind = "column"}}
      Updated(row) ==
        [k \in DOMAIN row |->
           IF k \in DOMAIN json /\ k \in columns THEN json[k] ELSE row[k]]
  IN [st EXCEPT ![Model] =
        [i \in DOMAIN st[Model] |->
           IF st[Model][i].id = id THEN Updated(st[Model][i])
           ELSE st[Model][i]]]

\* ModelView.put(params, **kwargs)
ModelView_put(self, req, st, log) ==
  LET model == get(st, self.Model, req.kwargs)
      log1 == log \o <<"query.get">>
      validated == is_validated(self, req.json)
      log2 == log1 \o <<"is_validated">>
      st2 == setattrs(st, self.Model, model.id, req.json)
      log3 == log2 \o <<"setattr">>
      json == to_json_str_depth(st2, self.Model,
                                Lookup(st2, self.Model, model.id), 1)
  IN IF model = None
     THEN APIError(404, "No resource found for this ID", st, log1)
     ELSE IF validated.exc # "" THEN Raise(validated.exc, st, log2)
     ELSE IF ~validated.value
     THEN APIError(400, "Failed validation", st, log2)
     ELSE IF "depth" \notin DOMAIN req.args
     THEN \* params['depth']
          Raise("BadRequestKeyError", st2, log3)
     ELSE IF json.exc # "" THEN Raise(json.exc, st2, log3)
     ELSE Return(200,
            [k \in Range(json.names) |->
               getattr(st2, self.Model, Lookup(st2, self.Model, model.id),
                       k).message],
            st2, log3)

\* session.delete(model)
session_delete(st, Model, id) ==
  LET Keep(row) == row.id # id
  IN [st EXCEPT ![Model] = SelectSeq(st[Model], Keep)]

\* ModelView.delete(params, **kwargs)
ModelView_delete(self, req, st, log) ==
  LET model == get(st, self.Model, req.kwargs)
      log1 == log \o <<"query.get">>
  IN IF model = None
     THEN APIError(404, "No resource found for this ID", st, log1)
     ELSE Return(200,
            [status |-> "200 Success", content |-> "Resource deleted"],
            session_delete(st, self.Model, model.id),
            log1 \o <<"session.delete">>)

-----------------------------------------------------------------------------
(* The dispatcher *)

\* A faulty variant of the handler lookup: a GET of a model view comes to
\* the delete handler.
Handler_get_is_delete(self, req, st, log) ==
  LET name == self.cls \o "." \o req.method
      log1 == log \o <<name>>
  IN CASE name = "IndexView.GET" -> IndexView_get(self, req, st, log1)
       [] name = "CollectionView.GET" -> CollectionView_get(self, req, st, log1)
       [] name = "CollectionView.POST" ->
            CollectionView_post(self, req, st, log1)
       [] name = "ModelView.GET" -> ModelView_delete(self, req, st, log1)
       [] name = "ModelView.PUT" -> ModelView_put(self, req, st, log1)
       [] name = "ModelView.DELETE" -> ModelView_delete(self, req, st, log1)
       [] OTHER -> Raise("AttributeError", st, log)

\* getattr(self, request.method.lower())(params, **kwargs); a view class
\* without that method raises AttributeError
Handler(self, req, st, log) ==
  LET name == self.cls \o "." \o req.method
      log1 == log \o <<name>>
  IN CASE name = "IndexView.GET" -> IndexView_get(self, req, st, log1)
       [] name = "CollectionView.GET" -> CollectionView_get(self, req, st, log1)
       [] name = "CollectionView.POST" ->
            CollectionView_post(self, req, st, log1)
       [] name = "ModelView.GET" -> ModelView_get(self, req, st, log1)
       [] name = "ModelView.PUT" -> ModelView_put(self, req, st, log1)
       [] name = "ModelView.DELETE" -> ModelView_delete(self, req, st, log1)
       [] OTHER -> Raise("AttributeError", st, log)

\* A faulty variant of the except clause: the response leaves the echo of
\* the request out.
except_APIError_no_request(self, req, e) ==
  IF e.exc = "APIError"
  THEN Return(e.code,
              [status |-> message(e.code),
               content |-> e.body],
              e.store, e.log)
  ELSE e

\* the except clause of APIView.__call__: an APIError e becomes the error
\* envelope and the status code e.code; any other outcome passes through
except_APIError(self, req, e) ==
  IF e.exc = "APIError"
  THEN Return(e.code,
              [status |-> message(e.code),
               request |-> Echo(self, req),
               content |-> e.body],
              e.store, e.log)
  ELSE e

\* A faulty variant of the try block: the method is checked before the
\* authorization.
try_method_first(self, req, st, log) ==
  IF req.method \notin self.methods
  THEN APIError(405, "Method Not Allowed", st, log)
  ELSE IF ~is_authorized(self, req)
  THEN APIError(403, "Not authorized", st, log)
  ELSE Handler(self, req, st, log \o <<"_parse_params">>)

\* A faulty variant of the try block: the method is not checked.
try_any_method(self, req, st, log) ==
  IF ~is_authorized(self, req)
  THEN APIError(403, "Not authorized", st, log)
  ELSE Handler(self, req, st, log \o <<"_parse_params">>)

\* the try block of APIView.__call__
try(self, req, st, log) ==
  IF ~is_authorized(self, req)
  THEN APIError(403, "Not authorized", st, log)
  ELSE IF req.method \in self.methods
  THEN Handler(self, req, st, log \o <<"_parse_params">>)
  ELSE APIError(405, "Method Not Allowed", st, log)

\* APIView.__call__(**kwargs)
__call__(self, req, st) ==
  except_APIError(self, req, try(self, req, st, <<"is_authorized">>))

-----------------------------------------------------------------------------
(* The inputs: the store at startup, the hooks, the requests *)

Cat(id, name, house_id) ==
  [id |-> id, name |-> name, house_id |-> house_id, __cache__ |-> "{}"]

\* one house with two cats, and a cat without a house
InitialStore ==
  [House |-> << [id |-> 1, address |-> "a"] >>,
   Cat   |-> << Cat(1, "b", <<1>>), Cat(2, "a", <<1>>), Cat(3, "c", None) >>]

\* no authorize hook, one that authorizes every method, one that
\* authorizes PUT only
AuthorizeHooks == {None, <<Methods>>, <<{"PUT"}>>}
\* no validate hook, one that accepts, one that declines
ValidateHooks == {None, <<TRUE>>, <<FALSE>>}

Digits == <<"0", "1", "2", "3", "4", "5", "6", "7", "8", "9">>
\* str(n)
str(n) == IF n < 0 THEN <<"-", Digits[1 - n]>> ELSE <<Digits[n + 1]>>

NoArgs == <<>>
Arg(k, v) == k :> v

DepthArgs == {Arg("depth", str(d)) : d \in (0 - 1)..MaxDepth}
               \cup {Arg("depth", <<"x">>)}
LimitValues == {<<"0">>, <<"1">>, <<"2">>}
OffsetValues == {<<"1">>, <<"2">>}
CollectionArgs ==
  {NoArgs} \cup DepthArgs
  \cup {Arg("limit", v) : v \in LimitValues \cup {<<"x">>}}
  \cup {Arg("offset", v) : v \in OffsetValues \cup {<<"x">>}}
  \cup {Arg("limit", l) @@ Arg("offset", o) :
          l \in LimitValues, o \in OffsetValues}
  \cup {Arg("loaded", v) : v \in {<<"1">>, <<"1", ",", "2">>, <<"x">>}}
  \cup {Arg("sort", v) :
          v \in {<<"name">>, <<"-", "name">>, <<"-", "id">>, <<"bogus">>}}
  \cup {Arg("foo", <<"1">>), Arg("name", <<"a">>), Arg("id", <<"1">>)}
  \cup {Arg("loaded", <<"1">>) @@ Arg("sort", <<"-", "id">>)
          @@ Arg("limit", <<"1">>),
        Arg("loaded", <<"1">>) @@ Arg("name", <<"a">>),
        Arg("loaded", <<"1", ",", "2">>) @@ Arg("offset", <<"1">>)}

\* the primary keys that paths name: those of the rows at startup, and one
\* that no row has
PathIds(Model) ==
  {str(InitialStore[Model][i].id) : i \in DOMAIN InitialStore[Model]}
  \cup {<<"9">>}
Positions == {<<"0">>, <<"1">>, <<"2">>, <<"3">>, <<"-", "1">>, <<"x">>}

\* the path-bound values a view's url takes
KwargsOf(view, positions) ==
  CASE view.cls = "IndexView" -> {<<>>}
    [] view.cls = "CollectionView" /\ view.relationship = NoName -> {<<>>}
    [] view.cls = "ModelView" /\ view.relationship # NoName ->
         {[id |-> id, position |-> p] :
            id \in PathIds(view.Model), p \in positions}
    [] OTHER -> {[id |-> id] : id \in PathIds(view.Model)}

GetArgsOf(view) ==
  CASE view.cls = "IndexView" -> {NoArgs, Arg("depth", <<"x">>)}
    [] view.cls = "CollectionView" -> CollectionArgs
    [] view.cls = "ModelView" /\ view.relationship # NoName ->
         {NoArgs, Arg("depth", <<"0">>), Arg("depth", <<"x">>)}
    [] OTHER -> {NoArgs} \cup DepthArgs

Bodies == {[name |-> "z"], [address |-> "z"]}

Request(view, method, kwargs, args, json) ==
  [view |-> view, method |-> method, kwargs |-> kwargs, args |-> args,
   json |-> json]

Requests ==
  UNION {
    {Request(v, "GET", kw, a, None) :
       kw \in KwargsOf(views[v], Positions), a \in GetArgsOf(views[v])}
    \cup {Request(v, m, kw, a, b) :
            m \in {"POST", "PUT"}, kw \in KwargsOf(views[v], {<<"1">>}),
            a \in {NoArgs, Arg("depth", <<"1">>)}, b \in Bodies}
    \cup {Request(v, "DELETE", kw, NoArgs, None) :
            kw \in KwargsOf(views[v], {<<"1">>})}
    : v \in DOMAIN views }

-----------------------------------------------------------------------------
(* The state machine *)

Init ==
  /\ store = InitialStore
  /\ Models = add_model(add_model(<<>>, "House", True, Methods),
                        "Cat", True, Methods)
  /\ views = _before_register(Models)
  /\ authorize \in AuthorizeHooks
  /\ validate \in ValidateHooks
  /\ config = config_defaults
  /\ pc = "idle"
  /\ request = None
  /\ response = None
  /\ before = store
  /\ registered = Models

\* the transport delivers a request to its view, which answers it
Call(req) ==
  /\ \E r \in {__call__(views[req.view], req, store)} :
       /\ store' = r.store
       /\ response' = [exc |-> r.exc, code |-> r.code, body |-> r.body,
                       log |-> r.log]
  /\ request' = req
  /\ before' = store
  /\ pc' = "done"
  /\ UNCHANGED <<Models, views, authorize, validate, config, registered>>

\* the response is out and the request context is discarded
Teardown ==
  /\ pc = "done"
  /\ pc' = "idle"
  /\ request' = None
  /\ response' = None
  /\ before' = store
  /\ UNCHANGED <<store, Models, views, authorize, validate, config, registered>>

\* a request comes in when none is in progress
Dispatch == pc = "idle" /\ \E req \in Requests : Call(req)

Next ==
  \/ Dispatch
  \/ Teardown

Spec == Init /\ [][Next]_vars

-----------------------------------------------------------------------------
(* Startup: the application registers entity types with add_model, the     *)
(* project registers the extension (_before_register generates the views,  *)
(* _after_register hands the manager to them), and add_model can still be  *)
(* called afterwards.                                                      *)

\* the methods arguments of add_model
MethodSets ==
  {{}, {"POST"}, {"PUT", "DELETE"}, {"POST", "PUT"}, {"GET"}, Methods}
\* the relationships arguments of add_model
RelationshipOptions(Model) ==
  IF Model = "House" THEN {True, False, Keys({"pets"})} ELSE {True, False}
\* the methods arguments of the calls made after the views exist
LateMethodSets == {{"POST"}, {"GET"}, Methods}

RegInit ==
  /\ store = InitialStore
  /\ Models = <<>>
  /\ views = <<>>
  /\ authorize \in {None, <<Methods>>}
  /\ validate = None
  /\ config = config_defaults
  /\ pc = "setup"
  /\ request = None
  /\ response = None
  /\ before = store
  /\ registered = None

\* the application calls add_model, before or after the views exist
Register(Model, relationships, methods) ==
  /\ Models' = add_model(Models, Model, relationships, methods)
  /\ UNCHANGED <<store, views, authorize, validate, config, pc, request,
                 response, before, registered>>

Registration ==
  \/ /\ pc = "setup"
     /\ \E Model \in ModelNames, methods \in MethodSets :
          \E relationships \in RelationshipOptions(Model) :
            Register(Model, relationships, methods)
  \/ /\ pc = "idle"
     /\ \E Model \in ModelNames, methods \in LateMethodSets :
          \E relationships \in {True, False} :
            Register(Model, relationships, methods)

\* the project registers the extension: _before_register, _after_register
Generate ==
  /\ pc = "setup"
  /\ views' = _before_register(Models)
  /\ registered' = Models
  /\ pc' = "idle"
  /\ UNCHANGED <<store, Models, authorize, validate, config, request,
                 response, before>>

\* the requests of this specification: on every route a GET and a POST, and
\* on every collection route a PUT and a DELETE too, at key 1, position 1
RegRequests ==
  UNION {
    {Request(v, m, kw, NoArgs, IF m = "GET" THEN None ELSE [name |-> "z"]) :
       m \in {"GET", "POST"}, kw \in KwargsOf(views[v], {<<"1">>}) \cap
                                     ({<<>>} \cup [id : {<<"1">>}]
                                      \cup [id : {<<"1">>},
                                            position : {<<"1">>}])}
    \cup (IF views[v].cls = "CollectionView"
          THEN {Request(v, m, kw, NoArgs, IF m = "PUT" THEN [name |-> "z"]
                                          ELSE None) :
                  m \in {"PUT", "DELETE"},
                  kw \in KwargsOf(views[v], {<<"1">>}) \cap
                         ({<<>>} \cup [id : {<<"1">>}])}
          ELSE {})
    : v \in DOMAIN views }

RegDispatch == pc = "idle" /\ \E req \in RegRequests : Call(req)

RegNext ==
  \/ Registration
  \/ Generate
  \/ RegDispatch
  \/ Teardown

RegSpec == RegInit /\ [][RegNext]_vars

-----------------------------------------------------------------------------
(* Configuration: the keywords of APIManager override the defaults.  The  *)
(* application is constructed with or without a MAX_LIMIT and serves GETs  *)
(* of its collections.                                                     *)

\* the MAX_LIMIT keyword of APIManager(...): absent, 1 or 2
MaxLimits == {None, <<1>>, <<2>>}

\* the limit and offset parameters of the requests
LimitArgs ==
  {NoArgs}
  \cup {Arg("limit", str(l)) : l \in (0 - 1)..3}
  \cup {Arg("limit", str(l)) @@ Arg("offset", <<"1">>) : l \in 0..2}
  \cup {Arg("limit", <<"x">>)}

ConfigInit ==
  /\ store = InitialStore
  /\ Models = add_model(add_model(<<>>, "House", True, Methods),
                        "Cat", True, Methods)
  /\ views = _before_register(Models)
  /\ authorize \in AuthorizeHooks
  /\ validate = None
  /\ \E max_limit \in MaxLimits :
       config = [config_defaults EXCEPT !.MAX_LIMIT = max_limit]
  /\ pc = "idle"
  /\ request = None
  /\ response = None
  /\ before = store
  /\ registered = Models

\* the requests of this specification: GETs of the collection routes
ConfigRequests ==
  UNION {
    {Request(v, "GET", kw, a, None) :
       kw \in KwargsOf(views[v], Positions), a \in LimitArgs}
    : v \in {i \in DOMAIN views : views[i].cls = "CollectionView"} }

ConfigDispatch == pc = "idle" /\ \E req \in ConfigRequests : Call(req)

ConfigNext ==
  \/ ConfigDispatch
  \/ Teardown

ConfigSpec == ConfigInit /\ [][ConfigNext]_vars

-----------------------------------------------------------------------------
(* Properties.  They read the last call: request, response (with the log   *)
(* of the steps the call took), the store it left and the store before it. *)

Done == pc = "done"

\* the view the request was routed to
matched == views[request.view]

\* a hook is registered and returns a false value for the request's method
HookDeclines == authorize # None /\ request.method \notin authorize[1]

MethodAllowed == request.method \in matched.methods

InLog(step) == \E i \in DOMAIN response.log : response.log[i] = step

\* the log entries that mark the entry into a handler
HandlerSteps ==
  {cls \o "." \o m : cls \in {"IndexView", "CollectionView", "ModelView"},
                     m \in Methods}
\* the log entries that are reads or writes of the store
StoreSteps == {"query.get", "query", "setattr", "session.delete"}

\* the stage of the dispatcher a log entry belongs to
StageOf(step) ==
  CASE step = "is_authorized" -> 1
    [] step = "_parse_params" -> 2
    [] step \in HandlerSteps -> 3
    [] OTHER -> 4

\* no row of the store the call started with has the primary key of the path
NoEntityAtKey ==
  \A i \in DOMAIN before[matched.Model] :
     before[matched.Model][i].id # int(request.kwargs.id)

\* the exposed field names of each type, and the field names of the
\* primary-key reference
ExpectedShape ==
  [House |-> {"address", "id", "pets"},
   Cat   |-> {"house", "house_id", "id", "name", "tag"}]
FieldNames(T, d) == IF d <= 0 THEN {"id"} ELSE ExpectedShape[T]

\* the request is a GET of a model view or collection view that was answered
\* with 200
Served(cls) ==
  /\ Done
  /\ matched.cls = cls
  /\ request.method = "GET"
  /\ response.exc = ""
  /\ response.code = 200

\* C1 (as the claim has it): a PUT that passes the authorization and the
\* method check while the validate hook declines ends in 400 even when no
\* entity exists at the primary key of the path.
C1_PutDeclinedIs400BeforeLookup ==
  (/\ Done
   /\ request.method = "PUT"
   /\ ~HookDeclines
   /\ MethodAllowed
   /\ validate = <<FALSE>>
   /\ NoEntityAtKey)
  => (response.exc = "" /\ response.code = 400)

\* C1 (amended): the steps of a call are taken in the order authorization,
\* method check, parameter parsing, handler; a request the authorize hook
\* declines ends in 403 with no further step, also when its method is not
\* allowed; an authorized request with a disallowed method ends in 405 with
\* no further step; and a PUT at a primary key where no entity exists ends
\* in 404 after the lookup, without the validate hook being consulted.
C1_StagesInOrder ==
  Done =>
    LET log == response.log IN
    /\ log[1] = "is_authorized"
    /\ \A i, j \in DOMAIN log :
         i < j => /\ StageOf(log[i]) <= StageOf(log[j])
                  /\ StageOf(log[i]) < 4 => StageOf(log[i]) < StageOf(log[j])
    /\ HookDeclines =>
         response.exc = "" /\ response.code = 403 /\ Len(log) = 1
    /\ (~HookDeclines /\ ~MethodAllowed) =>
         response.exc = "" /\ response.code = 405 /\ Len(log) = 1
    /\ (~HookDeclines /\ MethodAllowed) =>
         /\ Len(log) >= 3
         /\ log[2] = "_parse_params"
         /\ log[3] = matched.cls \o "." \o request.method
    /\ (request.method = "PUT" /\ ~HookDeclines /\ MethodAllowed
        /\ NoEntityAtKey) =>
         /\ response.exc = "" /\ response.code = 404
         /\ log[Len(log)] = "query.get"
         /\ ~InLog("is_validated")
    /\ (request.method = "PUT" /\ InLog("is_validated")) =>
         \E i, j \in DOMAIN log :
            i < j /\ log[i] = "query.get" /\ log[j] = "is_validated"

\* a PUT at a key without entity, made while the validate hook declines,
\* was answered with 404
C1_Witness ==
  /\ Done
  /\ request.method = "PUT"
  /\ ~HookDeclines
  /\ MethodAllowed
  /\ validate = <<FALSE>>
  /\ NoEntityAtKey
  /\ response.code = 404

\* C2: without an authorize hook every request passes the authorization
\* check (none is answered with 403); a request for which the registered
\* hook returns a false value is answered with 403, takes no step that reads
\* or writes the store, and leaves the store as it was.
C2_Authorization ==
  Done =>
    /\ authorize = None => response.code # 403
    /\ HookDeclines =>
         /\ response.exc = ""
         /\ response.code = 403
         /\ response.body.status = "403 Forbidden"
         /\ \A i \in DOMAIN response.log : response.log[i] \notin StoreSteps
         /\ store = before

\* a DELETE of an existing entity, declined by the hook, was answered 403
C2_Witness ==
  /\ Done
  /\ HookDeclines
  /\ request.method = "DELETE"
  /\ MethodAllowed
  /\ ~NoEntityAtKey
  /\ response.code = 403
  /\ store = before

\* C3: a PUT (at an existing entity) or POST that passes the authorization
\* and the method check while the registered validate hook returns a false
\* value is answered with 400, and the store is as it was before.
C3_DeclinedWriteIs400 ==
  (/\ Done
   /\ request.method \in {"PUT", "POST"}
   /\ ~HookDeclines
   /\ MethodAllowed
   /\ validate = <<FALSE>>
   /\ request.method = "PUT" => ~NoEntityAtKey)
  => (response.exc = "" /\ response.code = 400 /\ store = before)

\* C4 (as the claim has it): a request whose method is not in the allowed
\* set of its view is answered with 405.
C4_DisallowedMethodIs405 ==
  (Done /\ ~MethodAllowed) => (response.exc = "" /\ response.code = 405)

\* C4 (amended): a request that passes the authorization check and whose
\* method is not in the allowed set of its view is answered with 405, and
\* neither parameter parsing nor any handler runs for it; one that the
\* authorize hook declines is answered with 403 instead.
C4_AuthorizedDisallowedMethodIs405 ==
  (Done /\ ~MethodAllowed) =>
    /\ response.exc = ""
    /\ response.code = (IF HookDeclines THEN 403 ELSE 405)
    /\ response.body.status =
         (IF HookDeclines THEN "403 Forbidden" ELSE "405 Method Not Allowed")
    /\ ~InLog("_parse_params")
    /\ \A i \in DOMAIN response.log : response.log[i] \notin HandlerSteps
    /\ store = before

\* an authorized DELETE of a collection was answered with 405
C4_Witness ==
  /\ Done
  /\ ~HookDeclines
  /\ ~MethodAllowed
  /\ request.method = "DELETE"
  /\ matched.cls = "CollectionView"
  /\ response.code = 405

\* C5: a GET request, whatever its view, parameters and outcome, leaves the
\* store as it was; a call that changed the store was a POST, PUT or DELETE.
C5_GetLeavesStore ==
  Done =>
    /\ request.method = "GET" => store = before
    /\ store # before => request.method \in {"POST", "PUT", "DELETE"}

\* a GET was answered with 200 from a store that an earlier call had changed
C5_Witness ==
  /\ Done
  /\ request.method = "GET"
  /\ response.exc = ""
  /\ response.code = 200
  /\ store # InitialStore
  /\ store = before

RECURSIVE Conforms(_, _, _)
Conforms(json, M, d) ==
  IF d <= 0 THEN DOMAIN json = {"id"}
  ELSE /\ DOMAIN json = ExpectedShape[M]
       /\ \A f \in ExpectedShape[M] :
            LET m == Member(M, f) IN
            m.kind = "relationship" =>
              IF m.uselist
              THEN \A i \in DOMAIN json[f] :
                      Conforms(json[f][i], m.target, d - 1)
              ELSE json[f] = None \/ Conforms(json[f], m.target, d - 1)

\* C7: on every store, those with cycles among them (a house lists its
\* cats and each cat refers back to its house), and at every depth d, the
\* serializer returns without exhausting the recursion limit, expands no
\* entity max(d, 0) hops away or further, and gives the entities at d hops
\* as primary-key references.
C7_DepthBoundsExpansion ==
  \A M \in ModelNames : \A i \in DOMAIN store[M] :
     \A d \in (0 - 1)..MaxDepth :
        Conforms(to_json(store, M, store[M][i], d), M, d)

\* a house was served at depth 3: its cat, the cat's house (the same house
\* again), and that house's cats as references
C7_Witness ==
  /\ Served("ModelView")
  /\ matched.Model = "House"
  /\ matched.relationship = NoName
  /\ request.args = Arg("depth", <<"3">>)
  /\ Len(response.body.pets) > 0
  /\ response.body.pets[1].house.id = response.body.id
  /\ response.body.pets[1].house.pets[1] = [id |-> response.body.pets[1].id]

\* C8: at every depth d > 0 the serialization of a cat has an entry for
\* every exposed name; for a cat whose tag raises ValueError (a cat without
\* house) tag maps to the message of the error, and the other names map to
\* their values as they do for every cat.
C8_FailingFieldIsMessage ==
  \A i \in DOMAIN store["Cat"] : \A d \in 1..MaxDepth :
     LET row == store["Cat"][i]
         json == to_json(store, "Cat", row, d)
     IN /\ DOMAIN json = ExpectedShape["Cat"]
        /\ json.tag = (IF row.house_id = None THEN "stray" ELSE "housed")
        /\ json.id = row.id
        /\ json.name = row.name
        /\ json.house_id = row.house_id
        /\ row.house_id = None => json.house = None
        /\ (row.house_id # None /\ Lookup(store, "House", row.house_id[1]) # None)
             => json.house.id = row.house_id[1]

\* the cat without house was served with the message for its tag
C8_Witness ==
  /\ Served("ModelView")
  /\ matched.Model = "Cat"
  /\ matched.relationship = NoName
  /\ request.kwargs.id = <<"3">>
  /\ request.args = NoArgs
  /\ response.body.tag = "stray"
  /\ response.body.name = "c"

\* the type of the entities a model view or collection view returns, and
\* the depth it serializes them at
ReturnedType ==
  IF matched.relationship = NoName THEN matched.Model
  ELSE Member(matched.Model, matched.relationship).target
RequestedDepth(default) ==
  IF "depth" \in DOMAIN request.args THEN int(request.args.depth)
  ELSE default
ServedDepth ==
  IF matched.cls = "ModelView"
  THEN RequestedDepth(config_defaults.DEFAULT_MODEL_DEPTH)
  ELSE IF /\ matched.relationship # NoName
          /\ Member(matched.Model, matched.relationship).lazy # "dynamic"
  THEN config_defaults.DEFAULT_COLLECTION_DEPTH
  ELSE Max(0, RequestedDepth(config_defaults.DEFAULT_COLLECTION_DEPTH))

\* C9: the field names of a returned entity are those of its type at the
\* depth it is served at, whatever the instance and whatever the route
\* (model, collection, relationship collection, relationship member): two
\* routes that return entities of one type at one depth give the same
\* field names.
C9_ShapeByTypeAndDepth ==
  /\ Served("ModelView") =>
       DOMAIN response.body = FieldNames(ReturnedType, ServedDepth)
  /\ Served("CollectionView") =>
       \A i \in DOMAIN response.body.content :
          DOMAIN response.body.content[i]
            = FieldNames(ReturnedType, ServedDepth)

\* a collection of cats was served at depth 1, every item in full shape
C9_Witness ==
  /\ Served("CollectionView")
  /\ matched.Model = "Cat"
  /\ request.args = Arg("depth", <<"1">>)
  /\ Len(response.body.content) >= 2
  /\ \A i \in DOMAIN response.body.content :
        DOMAIN response.body.content[i] = ExpectedShape["Cat"]

\* C10: a GET of a type's collection of N rows with limit L >= 0 and offset
\* O >= 0 (the defaults where the request gives none) returns
\* min(L, max(0, N - O)) items and reports matches.total = N.
C10_PageAndTotal ==
  (/\ Served("CollectionView")
   /\ matched.relationship = NoName
   /\ DOMAIN request.args \subseteq {"limit", "offset"})
  => LET N == Len(before[matched.Model])
         L == IF "limit" \in DOMAIN request.args
              THEN int(request.args.limit)
              ELSE config_defaults.DEFAULT_LIMIT
         O == IF "offset" \in DOMAIN request.args
              THEN int(request.args.offset) ELSE 0
     IN /\ Len(response.body.content) = Min(L, Max(0, N - O))
        /\ response.body.matches.total = N

\* the public columns a type declares, and the order of the values of a
\* column
DeclaredColumns(M) ==
  {m.name : m \in {x \in Range(Declared[M]) :
                      x.kind = "column" /\ ~x.private}}
ValueLessEq(M, column, a, b) ==
  IF Member(M, column).type = "str" THEN Rank(a) <= Rank(b) ELSE a <= b

\* the request is an authorized GET of the collection of a type
CollectionGet ==
  /\ Done
  /\ matched.cls = "CollectionView"
  /\ matched.relationship = NoName
  /\ request.method = "GET"
  /\ ~HookDeclines

\* the value of a column of the row that the i-th returned item refers to
ItemValue(i, column) ==
  Lookup(before, matched.Model, response.body.content[i].id)[column]

\* C11: a GET of a type's collection whose only parameter is sort is
\* answered with 400 when sort, without its leading '-', names no declared
\* column; otherwise with the items in ascending order of the column for
\* sort=<column> and in descending order of it for sort=-<column>.
C11_SortOrder ==
  (CollectionGet /\ DOMAIN request.args = {"sort"}) =>
    LET sort == request.args.sort
        descending == sort[1] = "-"
        attr == IF descending THEN Tail(sort) ELSE sort
        M == matched.Model
    IN IF ~(Len(attr) = 1 /\ attr[1] \in DeclaredColumns(M))
       THEN response.exc = "" /\ response.code = 400
       ELSE /\ response.exc = ""
            /\ response.code = 200
            /\ \A i, j \in DOMAIN response.body.content :
                 i < j =>
                   IF descending
                   THEN ValueLessEq(M, attr[1], ItemValue(j, attr[1]),
                                    ItemValue(i, attr[1]))
                   ELSE ValueLessEq(M, attr[1], ItemValue(i, attr[1]),
                                    ItemValue(j, attr[1]))

\* the request is an authorized GET of a collection view that was answered
\* with 200
ServedCollection == Served("CollectionView") /\ ~HookDeclines

\* the view is the collection of a relationship that is loaded as a list
ListBacked ==
  /\ matched.relationship # NoName
  /\ Member(matched.Model, matched.relationship).lazy # "dynamic"

\* the primary keys that the loaded parameter names
LoadedEntries ==
  {e \in Range(split(request.args.loaded, ",")) : e # <<>>}
LoadedKeys == {int(e) : e \in LoadedEntries}

\* references to all the cats of the house of the path, in store order
AllMembers ==
  LET Keep(c) == c.house_id = <<int(request.kwargs.id)>>
      rows == SelectSeq(before["Cat"], Keep)
  IN [i \in DOMAIN rows |-> [id |-> rows[i].id]]

\* C12 (as the claim has it): no collection GET with loaded=k1,...,kn, on
\* any collection route, returns an entity whose primary key is one of the
\* ki.
C12_LoadedExcludedEverywhere ==
  (/\ ServedCollection
   /\ "loaded" \in DOMAIN request.args
   /\ \A e \in LoadedEntries : IsInt(e))
  => \A i \in DOMAIN response.body.content :
        response.body.content[i].id \notin LoadedKeys

\* C12 (amended): a collection GET with loaded=k1,...,kn on a type's
\* collection or on a relationship collection that is a lazy query returns
\* no entity whose primary key is one of the ki, whatever filter, sort,
\* limit and offset go with it; on a relationship collection that is a
\* materialized list the parameter is not read, and all members are
\* returned.
C12_LoadedExcludedFromQueries ==
  (ServedCollection /\ "loaded" \in DOMAIN request.args) =>
    IF ListBacked THEN response.body.content = AllMembers
    ELSE \A i \in DOMAIN response.body.content :
            response.body.content[i].id \notin LoadedKeys

\* the cats were asked for with loaded=1,2 and the third cat came back
C12_Witness ==
  /\ ServedCollection
  /\ matched.Model = "Cat"
  /\ request.args = Arg("loaded", <<"1", ",", "2">>)
  /\ Len(before["Cat"]) = 3
  /\ response.body.content = <<[id |-> 3]>>

\* the request is an authorized GET of a collection view, at an owner that
\* exists when the collection is that of a relationship
CollectionRequest ==
  /\ Done
  /\ matched.cls = "CollectionView"
  /\ request.method = "GET"
  /\ ~HookDeclines
  /\ matched.relationship # NoName => ~NoEntityAtKey

Reserved == {"depth", "limit", "offset", "loaded", "sort"}

\* the request has a parameter that is neither a declared column of the
\* returned type nor a reserved one
UnknownParameter ==
  \E k \in DOMAIN request.args :
     k \notin DeclaredColumns(ReturnedType) /\ k \notin Reserved

\* every returned item has every column that the request names equal to
\* the value the request gives
ItemsMatchFilters ==
  \A k \in DOMAIN request.args \cap DeclaredColumns(ReturnedType) :
     \A i \in DOMAIN response.body.content :
        LET row == Lookup(before, ReturnedType, response.body.content[i].id)
        IN IF Member(ReturnedType, k).type = "str"
           THEN <<row[k]>> = request.args[k]
           ELSE IsInt(request.args[k]) /\ row[k] = int(request.args[k])

MalformedParameter ==
  \/ \E k \in DOMAIN request.args \cap {"limit", "offset", "depth"} :
        ~IsInt(request.args[k])
  \/ /\ "loaded" \in DOMAIN request.args
     /\ \E e \in LoadedEntries : ~IsInt(e)

\* C14: an authorized GET of a collection view or a model view, at an
\* existing entity where the path names one, whose limit, offset or depth
\* is no integer or whose loaded has an entry that is none, is answered
\* with 400: it neither succeeds with a default in place of the value nor
\* ends in an exception other than a client error.
C14_MalformedIs400 ==
  (/\ Done
   /\ request.method = "GET"
   /\ matched.cls \in {"CollectionView", "ModelView"}
   /\ ~HookDeclines
   /\ "id" \in DOMAIN request.kwargs => ~NoEntityAtKey
   /\ MalformedParameter)
  => (response.exc = "" /\ response.code = 400)

-----------------------------------------------------------------------------
(* The generator.  These are read under RegSpec, where registrations vary. *)

\* the views exist
Generated == pc # "setup"

\* the routes generated for entity type M of class cls: the entity type's
\* own ones, or those of its relationships
RoutesOf(M, cls) ==
  {i \in DOMAIN views : /\ views[i].cls = cls
                        /\ views[i].Model = M
                        /\ views[i].relationship = NoName}
RelationshipRoutesOf(M, cls, key) ==
  {i \in DOMAIN views : /\ views[i].cls = cls
                        /\ views[i].Model = M
                        /\ views[i].relationship = key}

\* the routes of class cls of M are one route with exactly the methods
\* allowed /\ among when these are some, and none otherwise
RouteIffMethods(M, cls, among) ==
  LET allowed == registered[M].methods \cap among
      routes == RoutesOf(M, cls)
  IN /\ (routes # {}) <=> (allowed # {})
     /\ Cardinality(routes) <= 1
     /\ \A i \in routes : views[i].methods = allowed

\* C15: once the views are generated, every registered entity type has a
\* singleton route exactly when its allowed methods meet {GET, PUT, DELETE}
\* and a collection route exactly when they meet {GET, POST}, each with
\* exactly that intersection as its methods; an authorized POST to a
\* singleton route and an authorized PUT or DELETE to a collection route are
\* answered 405.
C15_RoutesByMethods ==
  Generated =>
    /\ \A M \in DOMAIN registered :
         /\ RouteIffMethods(M, "ModelView", {"GET", "PUT", "DELETE"})
         /\ RouteIffMethods(M, "CollectionView", {"GET", "POST"})
    /\ \A M \in ModelNames \ DOMAIN registered :
         RoutesOf(M, "ModelView") \cup RoutesOf(M, "CollectionView") = {}
    /\ (/\ Done
        /\ ~HookDeclines
        /\ matched.relationship = NoName
        /\ \/ matched.cls = "ModelView" /\ request.method = "POST"
           \/ /\ matched.cls = "CollectionView"
              /\ request.method \in {"PUT", "DELETE"})
       => (response.exc = "" /\ response.code = 405)

\* C15 case: a registration that allows POST and PUT has given a singleton
\* route that allows PUT only and a collection route that allows POST only,
\* and a POST to the singleton route was answered 405.
C15_Witness ==
  /\ Done
  /\ "House" \in DOMAIN registered
  /\ registered["House"].methods = {"POST", "PUT"}
  /\ \E i \in RoutesOf("House", "CollectionView") :
       views[i].methods = {"POST"}
  /\ matched.cls = "ModelView"
  /\ matched.Model = "House"
  /\ matched.methods = {"PUT"}
  /\ request.method = "POST"
  /\ response.code = 405

\* the relationships of M that the registration exposes and that are lists
ExposedMany(M) ==
  {k \in Range(_get_relationships(M)) :
     k \in registered[M].relationships /\ Member(M, k).uselist}

\* both relationship routes of M.key exist, once each
BothRelationshipRoutes(M, key) ==
  /\ Cardinality(RelationshipRoutesOf(M, "ModelView", key)) = 1
  /\ Cardinality(RelationshipRoutesOf(M, "CollectionView", key)) = 1

\* no relationship route is for a relationship that is not a list or that
\* the registration does not expose, and every one allows GET only
RelationshipRoutesSound ==
  \A i \in DOMAIN views :
    views[i].relationship # NoName =>
      /\ views[i].Model \in DOMAIN registered
      /\ views[i].relationship \in ExposedMany(views[i].Model)
      /\ views[i].methods = {"GET"}

\* C16 as stated: once the views are generated, every exposed list
\* relationship of every registration has both relationship routes, and the
\* relationship routes are sound.
C16_ExposedManyAlwaysRouted ==
  Generated =>
    /\ \A M \in DOMAIN registered :
         \A key \in ExposedMany(M) : BothRelationshipRoutes(M, key)
    /\ RelationshipRoutesSound

\* C16: once the views are generated, every exposed list relationship of a
\* registration whose allowed methods include GET has both relationship
\* routes, a registration whose allowed methods lack GET has none, and no
\* relationship route is for a relationship that is not a list or not
\* exposed or allows anything but GET; an authorized POST, PUT or DELETE to
\* one is answered 405.
C16_ExposedManyRoutedWithGet ==
  Generated =>
    /\ \A M \in DOMAIN registered :
         \A key \in ExposedMany(M) :
           IF "GET" \in registered[M].methods
           THEN BothRelationshipRoutes(M, key)
           ELSE /\ RelationshipRoutesOf(M, "ModelView", key) = {}
                /\ RelationshipRoutesOf(M, "CollectionView", key) = {}
    /\ RelationshipRoutesSound
    /\ (/\ Done
        /\ ~HookDeclines
        /\ matched.relationship # NoName
        /\ request.method # "GET")
       => (response.exc = "" /\ response.code = 405)

\* C16 case: House is registered with GET and exposes pets only, Cat with
\* all its relationships; pets has its two routes, cats and house have
\* none, and a POST to the pets collection was answered 405.
C16_Witness ==
  /\ Done
  /\ DOMAIN registered = {"House", "Cat"}
  /\ registered["House"].relationships = {"pets"}
  /\ registered["Cat"].relationships = {"house"}
  /\ "GET" \in registered["House"].methods
  /\ "GET" \in registered["Cat"].methods
  /\ BothRelationshipRoutes("House", "pets")
  /\ RelationshipRoutesOf("House", "ModelView", "cats") = {}
  /\ RelationshipRoutesOf("Cat", "ModelView", "house") = {}
  /\ matched.cls = "CollectionView"
  /\ matched.relationship = "pets"
  /\ request.method = "POST"
  /\ response.code = 405

-----------------------------------------------------------------------------
(* Lookups by key and by position.  These are read under Spec.              *)

\* the request is a GET of a relationship's member by position
PositionGet ==
  /\ matched.cls = "ModelView"
  /\ matched.relationship # NoName
  /\ request.method = "GET"

\* C18: an authorized, allowed GET, PUT or DELETE of a singleton route, or
\* GET of a relationship route (collection or position), whose path key
\* matches no entity, with a well-formed depth and with a position that is
\* a positive integer, is answered 404 and leaves the store as it was.
C18_MissingKeyIs404 ==
  (/\ Done
   /\ ~HookDeclines
   /\ MethodAllowed
   /\ "id" \in DOMAIN request.kwargs
   /\ NoEntityAtKey
   /\ \/ matched.cls = "ModelView" /\ matched.relationship = NoName
      \/ matched.relationship # NoName /\ request.method = "GET"
   /\ ~MalformedParameter
   /\ PositionGet => /\ IsInt(request.kwargs.position)
                     /\ int(request.kwargs.position) >= 1)
  => (/\ response.exc = ""
      /\ response.code = 404
      /\ store = before)

\* the owner that the path of a position request names, the members of its
\* relationship in order, and the position asked for
PositionOwner == Lookup(before, matched.Model, int(request.kwargs.id))
PositionMembers ==
  getattr(before, matched.Model, PositionOwner, matched.relationship)
PositionAsked == int(request.kwargs.position)

\* an authorized GET by position at an existing owner, with an integer
\* position and a well-formed depth
PositionRequest ==
  /\ Done
  /\ PositionGet
  /\ ~HookDeclines
  /\ ~NoEntityAtKey
  /\ IsInt(request.kwargs.position)
  /\ ~MalformedParameter

\* the response is the member at 0-based index p - 1, at the depth asked for
ReturnsMemberAsked ==
  /\ response.exc = ""
  /\ response.code = 200
  /\ response.body =
       to_json(before, PositionMembers.Model,
               PositionMembers.rows[PositionAsked],
               RequestedDepth(config.DEFAULT_MODEL_DEPTH))

C20_PostCreates ==
  (/\ Done
   /\ matched.cls = "CollectionView"
   /\ matched.relationship = NoName
   /\ request.method = "POST"
   /\ ~HookDeclines
   /\ MethodAllowed
   /\ validate = None)
  => (/\ response.exc = ""
      /\ response.code = 200
      /\ Len(store[matched.Model]) = Len(before[matched.Model]) + 1
      /\ \E i \in DOMAIN store[matched.Model] :
           \A j \in DOMAIN before[matched.Model] :
             store[matched.Model][i].id # before[matched.Model][j].id)

-----------------------------------------------------------------------------
(* Writes: DELETE and PUT of a singleton route.  These are read under Spec. *)

\* the request is to an entity type's singleton route
SingletonRequest == matched.cls = "ModelView" /\ matched.relationship = NoName

\* the key in the path, and the row of the store st that has it
PathKey == int(request.kwargs.id)
RowAt(st) == Lookup(st, matched.Model, PathKey)

\* the rows of type M in st other than the one with the key of the path
OtherRows(st, M) ==
  LET Keep(row) == M # matched.Model \/ row.id # PathKey
  IN SelectSeq(st[M], Keep)

\* the entity at the key of the path was there at startup and is gone
DeletedEarlier ==
  /\ \E i \in DOMAIN InitialStore[matched.Model] :
       InitialStore[matched.Model][i].id = PathKey
  /\ NoEntityAtKey

\* the call removed the entity at the key of the path and nothing else
RemovedExactlyThat ==
  /\ \A i \in DOMAIN store[matched.Model] :
       store[matched.Model][i].id # PathKey
  /\ \A M \in ModelNames : store[M] = OtherRows(before, M)

\* C21: an authorized, allowed DELETE of a singleton route at an existing
\* entity is answered 200 and removes that entity and nothing else; and
\* once an entity is deleted, every authorized, allowed GET or DELETE of
\* the singleton route at its key is answered 404 and leaves the store.
C21_DeleteThenGone ==
  /\ (/\ Done
      /\ SingletonRequest
      /\ request.method = "DELETE"
      /\ ~HookDeclines
      /\ MethodAllowed
      /\ ~NoEntityAtKey)
     => (/\ response.exc = ""
         /\ response.code = 200
         /\ RemovedExactlyThat)
  /\ (/\ Done
      /\ SingletonRequest
      /\ request.method \in {"GET", "DELETE"}
      /\ ~HookDeclines
      /\ MethodAllowed
      /\ DeletedEarlier)
     => (/\ response.exc = ""
         /\ response.code = 404
         /\ store = before)

\* the call set the columns that the body names on the entity at the key of
\* the path, and left its other columns and every other entity as they were
SetExactlyThose ==
  /\ \A k \in DOMAIN RowAt(before) :
       RowAt(store)[k] = IF k \in DOMAIN request.json THEN request.json[k]
                         ELSE RowAt(before)[k]
  /\ \A M \in ModelNames : OtherRows(store, M) = OtherRows(before, M)

\* C22: an authorized, allowed PUT of a singleton route at an existing
\* entity, with no validate hook to decline the body, with or without a
\* depth parameter, is answered 200, sets the columns that the body names
\* and leaves everything else as it was.
C22_PutUpdates ==
  (/\ Done
   /\ SingletonRequest
   /\ request.method = "PUT"
   /\ ~HookDeclines
   /\ MethodAllowed
   /\ ~NoEntityAtKey
   /\ validate = None)
  => (/\ response.exc = ""
      /\ response.code = 200
      /\ SetExactlyThose)

-----------------------------------------------------------------------------
(* The envelope of the responses.  These are read under Spec.               *)

\* the call returned a response
Answered == Done /\ response.exc = ""

Envelope == {"status", "request", "content"}
\* the response carries status, request (base_url, method, values) and
\* content
HasEnvelope ==
  /\ Envelope \subseteq DOMAIN response.body
  /\ DOMAIN response.body.request = {"base_url", "method", "values"}

\* the response is an error, with its code as the status of the transport
ErrorResponse == Answered /\ response.code # 200
\* the response is that of a collection
CollectionResponse ==
  Answered /\ response.code = 200 /\ matched.cls = "CollectionView"

\* a collection response carries matches.total and matches.returned, the
\* latter the number of items in content
HasMatches ==
  /\ "matches" \in DOMAIN response.body
  /\ DOMAIN response.body.matches = {"total", "returned"}
  /\ response.body.matches.returned = Len(response.body.content)

\* an error response carries one of the four codes, and the status of that
\* code
HasErrorCode ==
  /\ response.code \in {400, 403, 404, 405}
  /\ response.body.status = message(response.code)

\* C23 as stated: every response carries the envelope, every collection
\* response matches too, every error response its code.
C23_EveryResponseEnveloped ==
  Answered =>
    /\ HasEnvelope
    /\ CollectionResponse => HasMatches
    /\ ErrorResponse => HasErrorCode

\* C23: every error response, on every route and method, and every
\* collection response carries status, request (base_url, method, values)
\* and content; every collection response carries matches.total and
\* matches.returned too, the latter the number of items in content; every
\* error response has code 400, 403, 404 or 405 as its status.  The
\* response to a successful GET of a model view is the serialization alone
\* and that to a successful DELETE carries status and content only.
C23_ErrorsAndCollectionsEnveloped ==
  Answered =>
    /\ ErrorResponse => (HasEnvelope /\ HasErrorCode)
    /\ CollectionResponse => (HasEnvelope /\ HasMatches)
    /\ (/\ response.code = 200
        /\ matched.cls = "ModelView"
        /\ request.method = "GET")
       => response.body =
            to_json(before, ReturnedType,
                    IF PositionGet THEN PositionMembers.rows[PositionAsked]
                    ELSE RowAt(before),
                    RequestedDepth(config.DEFAULT_MODEL_DEPTH))
    /\ (/\ response.code = 200
        /\ matched.cls = "ModelView"
        /\ request.method = "DELETE")
       => DOMAIN response.body = {"status", "content"}

\* C23 case: the collection of a relationship answered with the envelope
\* and two items, and matches.returned says two.
C23_Witness ==
  /\ CollectionResponse
  /\ matched.relationship # NoName
  /\ HasEnvelope
  /\ HasMatches
  /\ response.body.matches.returned = 2

-----------------------------------------------------------------------------
(* The page size.  This is read under ConfigSpec, where MAX_LIMIT varies.   *)

\* C24: with MAX_LIMIT configured, a collection response has no more than
\* MAX_LIMIT items, whatever limit the request names (none, zero, negative
\* or more than MAX_LIMIT); and with limit 0 it has no item.
C24_MaxLimitBounds ==
  (CollectionResponse /\ config.MAX_LIMIT # None)
  => (/\ Len(response.body.content) <= config.MAX_LIMIT[1]
      /\ (/\ "limit" \in DOMAIN request.args
          /\ IsInt(request.args.limit)
          /\ int(request.args.limit) = 0)
         => Len(response.body.content) = 0)

-----------------------------------------------------------------------------
(* The outcomes of a call.  This is read under Spec.                        *)

\* C25: every call ends in a response with status 200, 400, 403, 404 or
\* 405; none ends in an exception that the dispatcher does not translate.
C25_NoUntranslatedFailure ==
  Done => (/\ response.exc = ""
           /\ response.code \in {200, 400, 403, 404, 405})

====
